---- MODULE Spec2Model ----
(***************************************************************************)
(* A model of HGrid's Tree/Leaf data model, of the row store (the          *)
(* Slick.Data.DataView the tree pushes its items into) and of the grid     *)
(* controller and drag-and-drop plugin operations that change both.        *)
(*                                                                         *)
(* JavaScript objects are modelled by position: a node is its handle (its  *)
(* index in `nodes`), a store item is a record of `items`.  Ids are        *)
(* integers; the string id 'root' and the value undefined get integers of  *)
(* their own below zero.  An item's _collapsed/_hidden flags are Booleans, *)
(* undefined being FALSE (the code only tests them for truth).             *)
(***************************************************************************)
EXTENDS Integers, Sequences, FiniteSets, TLC

\* ---------------------------------------------------------------- bounds
MaxInitNodes == 3    \* objects of the hierarchy a grid is constructed with
MaxBuildNodes == 4   \* objects of the hierarchy when only the construction is studied
MaxOps == 3          \* operations on the grid after its construction
MaxDragRows == 2     \* rows selected in one drag
MaxBatch == 2        \* items given to one addItems
MaxTreeOps == 2      \* operations on the tree when it is handled through Tree and Leaf

\* ------------------------------------------------------------- constants
ROOT_ID == -1        \* the string 'root'
NoVal == -2          \* undefined / null / an absent property
FILE == "file"
FOLDER == "folder"

\* data.id is tested as `if (data.id)`: undefined and 0 are both falsy
Truthy(v) == v # NoVal /\ v # 0

VARIABLES
  phase,         \* "new" before the HGrid constructor ran, "ready" after
  input,         \* options.data.data, the nested hierarchy
  nodes,         \* the Tree and Leaf objects, nodes[1] being grid.tree
  items,         \* DataView items, in store order
  rows,          \* DataView rows (ids), as of the last refresh
  suspend,       \* DataView suspend flag (beginUpdate .. endUpdate)
  idCounter,     \* the global idCounter
  folderTarget,  \* Draggable._folderTarget (the id of the item it holds)
  last,          \* the last operation, its argument and how it ended
  ops            \* the number of operations since the construction

vars == <<phase, input, nodes, items, rows, suspend, idCounter, folderTarget, last, ops>>

\* ------------------------------------------------------- input hierarchies
\* the ids an object of the input may carry: none, or one of these
SuppliedIds == {0, 2}

FileObj(id) == [kind |-> FILE, id |-> id, children |-> <<>>]
FolderObj(id, c) == [kind |-> FOLDER, id |-> id, children |-> c]

RECURSIVE Forests(_, _)
\* the sequences of nested file/folder objects that have n objects in all,
\* each object carrying an id of ids
Forests(n, ids) ==
  IF n = 0 THEN {<<>>}
  ELSE UNION { { <<t>> \o rest :
                   t \in (IF k = 1 THEN { FileObj(id) : id \in ids } ELSE {})
                           \cup { FolderObj(id, c) : id \in ids, c \in Forests(k - 1, ids) },
                   rest \in Forests(n - k, ids) } : k \in 1..n }

\* the hierarchies a grid is constructed with: no object has an id of its own
Hierarchies == UNION { Forests(n, {NoVal}) : n \in 0..MaxInitNodes }

\* ------------------------------------------------------------ Tree / Leaf
\* the properties of a data object that the model follows
NoData == [id |-> NoVal, parentID |-> NoVal, collapsed |-> FALSE, hidden |-> FALSE]

RootNode == [id |-> ROOT_ID, parentID |-> NoVal, depth |-> 0, children |-> <<>>,
             kind |-> FOLDER, dv |-> TRUE, data |-> NoData]

\* getUID / new Tree(data) / new Leaf(data): the node is appended to st.nodes
NewNode(st, kind, data) ==
  LET uid == IF Truthy(data.id) THEN data.id ELSE st.idCounter
      n == [id |-> uid, parentID |-> NoVal, depth |-> NoVal, children |-> <<>>,
            kind |-> kind, dv |-> FALSE, data |-> data]
  IN [st EXCEPT !.nodes = Append(@, n),
                !.idCounter = IF Truthy(data.id) THEN @ ELSE @ + 1]

\* $.extend({}, {id, parentID, _node, depth}, this.data): data wins where set
ItemOf(ns, h) ==
  LET n == ns[h]
  IN [id |-> IF n.data.id # NoVal THEN n.data.id ELSE n.id,
      parentID |-> IF n.data.parentID # NoVal THEN n.data.parentID ELSE n.parentID,
      node |-> h,
      depth |-> n.depth,
      kind |-> n.kind,
      collapsed |-> n.data.collapsed,
      hidden |-> n.data.hidden]

RECURSIVE ToData(_, _)
RECURSIVE ChildrenToData(_, _, _)
\* Tree.prototype.toData / Leaf.prototype.toData (with a result array)
ToData(ns, h) ==
  IF ns[h].kind = FILE THEN <<ItemOf(ns, h)>>
  ELSE (IF ns[h].depth # 0 THEN <<ItemOf(ns, h)>> ELSE <<>>)
         \o ChildrenToData(ns, ns[h].children, 1)

ChildrenToData(ns, ch, k) ==
  IF k > Len(ch) THEN <<>>
  ELSE ToData(ns, ch[k]) \o ChildrenToData(ns, ch, k + 1)

\* ------------------------------------------------ the row store (DataView)
\* A handler runs on a record st of the program's state; st.err names the
\* exception that ended it, "none" while it runs.
Throw(st, e) == [st EXCEPT !.err = e]

\* the place (1-based) of the item idxById maps id to, 0 when there is none
IdxById(its, id) ==
  IF \E i \in 1..Len(its) : its[i].id = id
    THEN CHOOSE i \in 1..Len(its) :
           its[i].id = id /\ \A j \in 1..Len(its) : its[j].id = id => j <= i
    ELSE 0

RECURSIVE VisibleIds(_, _)
\* the ids of the items collapseFilter lets through, in store order
VisibleIds(its, k) ==
  IF k > Len(its) THEN <<>>
  ELSE (IF ~its[k].hidden THEN <<its[k].id>> ELSE <<>>) \o VisibleIds(its, k + 1)

\* DataView.refresh: recomputes the rows unless updates are suspended, and
\* notifies onRowCountChanged when their number changed (st.notes counts the
\* notifications of the running handler)
Refresh(st) ==
  IF st.suspend THEN st
  ELSE LET r == VisibleIds(st.items, 1)
       IN [st EXCEPT !.rows = r,
                     !.notes = IF Len(r) # Len(st.rows) THEN @ + 1 ELSE @]

\* dataView.insertItem(idx, item), idx counted from 0
InsertItem(st, idx, item) ==
  Refresh([st EXCEPT !.items = SubSeq(@, 1, idx) \o <<item>> \o SubSeq(@, idx + 1, Len(@))])

\* dataView.deleteItem(id): throws 'Invalid id' when the id is not in the store
DeleteItem(st, id) ==
  LET i == IdxById(st.items, id)
  IN IF i = 0 THEN Throw(st, "InvalidId")
     ELSE Refresh([st EXCEPT !.items = SubSeq(@, 1, i - 1) \o SubSeq(@, i + 1, Len(@))])

\* dataView.setItems(data): ids must be unique
SetItems(st, data) ==
  LET s1 == [st EXCEPT !.items = data]
  IN IF \E i, j \in 1..Len(data) : i # j /\ data[i].id = data[j].id
       THEN Throw(s1, "NonUniqueId")
       ELSE Refresh(s1)

BeginUpdate(st) == [st EXCEPT !.suspend = TRUE]
EndUpdate(st) == Refresh([st EXCEPT !.suspend = FALSE])

\* ------------------------------------------------------------ Tree methods
\* the insertion place of an item, counted from 0: right after its parent's item
\* (a mutant: the place of the parent's item itself)
ComputeAddIdxMutant(item, its) ==
  IF IdxById(its, item.parentID) = 0 THEN 0 ELSE IdxById(its, item.parentID) - 1
ComputeAddIdx(item, its) == IdxById(its, item.parentID)

RECURSIVE InsertData(_, _, _)
InsertData(st, data, k) ==
  IF k > Len(data) THEN st
  ELSE InsertData(InsertItem(st, ComputeAddIdx(data[k], st.items), data[k]), data, k + 1)

\* Tree.prototype.insertIntoDataView, on the node p
InsertIntoDataView(st, p, c) ==
  IF ~st.nodes[p].dv THEN Throw(st, "TypeError")
  ELSE InsertData(st, ToData(st.nodes, c), 1)

\* the depth Tree.add gives a component of p (null + 1 is 1)
\* (a mutant: every component gets depth 1)
ChildDepthMutant(ns, p) == 1
ChildDepth(ns, p) == IF ns[p].depth = NoVal THEN 1 ELSE ns[p].depth + 1

\* Tree.prototype.add(component, updateDataView)
\* (a mutant: the component is put first in the children list)
TreeAddMutant(st, p, c, updateDataView) ==
  LET s1 == [st EXCEPT !.nodes[c].parentID = st.nodes[p].id,
                       !.nodes[c].depth = ChildDepth(st.nodes, p),
                       !.nodes[c].dv = st.nodes[p].dv,
                       !.nodes[p].children = <<c>> \o @]
  IN IF updateDataView THEN InsertIntoDataView(s1, p, c) ELSE s1
TreeAdd(st, p, c, updateDataView) ==
  LET s1 == [st EXCEPT !.nodes[c].parentID = st.nodes[p].id,
                       !.nodes[c].depth = ChildDepth(st.nodes, p),
                       !.nodes[c].dv = st.nodes[p].dv,
                       !.nodes[p].children = Append(@, c)]
  IN IF updateDataView THEN InsertIntoDataView(s1, p, c) ELSE s1

DataOf(obj) == [NoData EXCEPT !.id = obj.id]

RECURSIVE TreeFromObject(_, _, _)
RECURSIVE AddChildrenFromObject(_, _, _, _)
\* Tree.fromObject(data, parent) for an object: the new subtree is node Len(st.nodes) + 1
TreeFromObject(st, data, parent) ==
  LET h == Len(st.nodes) + 1
      s1 == NewNode(st, FOLDER, DataOf(data))
      s2 == [s1 EXCEPT !.nodes[h].depth = s1.nodes[parent].depth + 1]
  IN AddChildrenFromObject(s2, h, data.children, 1)

\* the loop of Tree.fromObject over the children of tree t
AddChildrenFromObject(st, t, children, k) ==
  IF k > Len(children) THEN st
  ELSE LET child == children[k]
           h == Len(st.nodes) + 1
           s1 == IF child.kind = FILE THEN NewNode(st, FILE, DataOf(child))
                 ELSE TreeFromObject(st, child, t)
       IN AddChildrenFromObject(TreeAdd(s1, t, h, FALSE), t, children, k + 1)

\* Tree.fromObject(data) for an array: a new root, node Len(st.nodes) + 1
RootFromObject(st, data) ==
  LET h == Len(st.nodes) + 1
  IN AddChildrenFromObject([st EXCEPT !.nodes = Append(@, RootNode)], h, data, 1)

RECURSIVE EnsureDataView(_, _, _)
RECURSIVE EnsureChildren(_, _, _, _)
\* Tree/Leaf.prototype.ensureDataView(dataView)
EnsureDataView(ns, h, dv) ==
  LET d == IF ~dv THEN ns[h].dv ELSE dv
  IN EnsureChildren([ns EXCEPT ![h].dv = d], ns[h].children, d, 1)

EnsureChildren(ns, ch, dv, k) ==
  IF k > Len(ch) THEN ns
  ELSE EnsureChildren(EnsureDataView(ns, ch[k], dv), ch, dv, k + 1)

\* Tree.prototype.updateDataView
\* (a mutant: no test of this.dataView, so that beginUpdate is called on null)
UpdateDataViewMutant(st, h) ==
  IF ~st.nodes[h].dv
    THEN Throw([st EXCEPT !.nodes = EnsureDataView(@, h, FALSE)], "TypeError")
  ELSE LET s1 == [st EXCEPT !.nodes = EnsureDataView(@, h, FALSE)]
           s2 == SetItems(BeginUpdate(s1), ToData(s1.nodes, h))
       IN IF s2.err # "none" THEN s2 ELSE EndUpdate(s2)
UpdateDataView(st, h) ==
  IF ~st.nodes[h].dv THEN Throw(st, "HGridError")
  ELSE LET s1 == [st EXCEPT !.nodes = EnsureDataView(@, h, FALSE)]
           s2 == SetItems(BeginUpdate(s1), ToData(s1.nodes, h))
       IN IF s2.err # "none" THEN s2 ELSE EndUpdate(s2)

\* --------------------------------------------------- collapse and expand
\* node.getItem(): the place of dataView.getItemById(node.id), 0 when the node
\* has no DataView or the store has no such item
GetItem(st, h) == IF st.nodes[h].dv THEN IdxById(st.items, st.nodes[h].id) ELSE 0

\* Leaf.prototype.collapse
LeafCollapse(st, h) ==
  LET i == GetItem(st, h)
  IN IF i = 0 THEN Throw(st, "TypeError")
     ELSE [st EXCEPT !.items[i].collapsed = TRUE, !.items[i].hidden = TRUE]

\* Leaf.prototype.expand
LeafExpand(st, h) ==
  LET i == GetItem(st, h)
  IN IF i = 0 THEN Throw(st, "TypeError")
     ELSE [st EXCEPT !.items[i].collapsed = FALSE, !.items[i].hidden = FALSE]

\* the flags Tree.collapse(hideSelf) leaves on the node's own item
\* (a mutant: a hidden folder is marked collapsed as well)
CollapseSelfMutant(item, hideSelf) ==
  IF hideSelf THEN [item EXCEPT !.collapsed = TRUE, !.hidden = TRUE]
  ELSE [item EXCEPT !.collapsed = TRUE, !.hidden = FALSE]
CollapseSelf(item, hideSelf) ==
  IF hideSelf THEN [item EXCEPT !.hidden = TRUE]
  ELSE [item EXCEPT !.collapsed = TRUE, !.hidden = FALSE]

RECURSIVE TreeCollapse(_, _, _)
RECURSIVE CollapseChildren(_, _, _)
\* Tree.prototype.collapse(hideSelf)
TreeCollapse(st, h, hideSelf) ==
  LET i == GetItem(st, h)
  IN IF i = 0 THEN Throw(st, "TypeError")
     ELSE CollapseChildren([st EXCEPT !.items[i] = CollapseSelf(@, hideSelf)],
                           st.nodes[h].children, 1)

\* its loop: node.collapse(true) on every child, until one throws
CollapseChildren(st, ch, k) ==
  IF k > Len(ch) \/ st.err # "none" THEN st
  ELSE CollapseChildren(IF st.nodes[ch[k]].kind = FILE THEN LeafCollapse(st, ch[k])
                        ELSE TreeCollapse(st, ch[k], TRUE), ch, k + 1)

\* the flags Tree.expand(notFirst) leaves on the node's own item
\* (a mutant: the first call toggles _collapsed instead of clearing it)
ExpandSelfMutant(item, notFirst) ==
  IF ~notFirst THEN [item EXCEPT !.collapsed = ~@, !.hidden = FALSE]
  ELSE [item EXCEPT !.hidden = FALSE]
ExpandSelf(item, notFirst) ==
  IF ~notFirst THEN [item EXCEPT !.collapsed = FALSE, !.hidden = FALSE]
  ELSE [item EXCEPT !.hidden = FALSE]

RECURSIVE TreeExpand(_, _, _)
RECURSIVE ExpandChildren(_, _, _, _)
\* Tree.prototype.expand(notFirst)
TreeExpand(st, h, notFirst) ==
  LET i == GetItem(st, h)
  IN IF i = 0 THEN Throw(st, "TypeError")
     ELSE ExpandChildren([st EXCEPT !.items[i] = ExpandSelf(@, notFirst)],
                         i, st.nodes[h].children, 1)

\* its loop: node.expand(true) on every child while item i is not collapsed
ExpandChildren(st, i, ch, k) ==
  IF k > Len(ch) \/ st.err # "none" THEN st
  ELSE ExpandChildren(IF st.items[i].collapsed THEN st
                      ELSE IF st.nodes[ch[k]].kind = FILE THEN LeafExpand(st, ch[k])
                      ELSE TreeExpand(st, ch[k], TRUE), i, ch, k + 1)

\* dataView.updateItem(id, item) with the item at place j: throws 'Invalid id'
\* when the id is not in the store
UpdateItem(st, id, j) ==
  LET i == IdxById(st.items, id)
  IN IF i = 0 THEN Throw(st, "InvalidId")
     ELSE Refresh([st EXCEPT !.items[i] = st.items[j]])

\* HGrid.prototype.collapseItem(item), item being the store item at place j
CollapseItem(st, j) ==
  LET h == st.items[j].node
      s1 == IF st.nodes[h].kind = FILE THEN LeafCollapse(st, h) ELSE TreeCollapse(st, h, FALSE)
  IN IF s1.err # "none" THEN s1 ELSE UpdateItem(s1, s1.items[j].id, j)

\* HGrid.prototype.expandItem(item), item being the store item at place j
ExpandItem(st, j) ==
  LET h == st.items[j].node
      s1 == IF st.nodes[h].kind = FILE THEN LeafExpand(st, h) ELSE TreeExpand(st, h, FALSE)
  IN IF s1.err # "none" THEN s1 ELSE UpdateItem(s1, s1.items[j].id, j)

\* ------------------------------------------------------ add and remove
\* HGrid.prototype.getNodeByID(id): the node's handle, 0 when getByID(id) is
\* undefined (reading its _node then throws)
GetNodeByID(st, id) ==
  IF id = ROOT_ID \/ id = NoVal THEN 1
  ELSE IF IdxById(st.items, id) = 0 THEN 0
  ELSE st.items[IdxById(st.items, id)].node

\* HGrid.prototype.addItem(item): item carries kind, id, parentID and, when it
\* is the copy of a store item, that item's flags
AddItem(st, item) ==
  LET h == Len(st.nodes) + 1
      s1 == NewNode(st, IF item.kind = FOLDER THEN FOLDER ELSE FILE,
                    [id |-> item.id, parentID |-> item.parentID,
                     collapsed |-> item.collapsed, hidden |-> item.hidden])
      p == IF item.parentID = NoVal THEN 1 ELSE GetNodeByID(s1, item.parentID)
  IN IF p = 0 THEN Throw(s1, "TypeError")
     ELSE IF s1.nodes[p].kind = FILE THEN Throw(s1, "TypeError")
     ELSE TreeAdd(s1, p, h, TRUE)

RECURSIVE AddEach(_, _, _)
\* the loop of addItems
AddEach(st, its, k) ==
  IF k > Len(its) \/ st.err # "none" THEN st
  ELSE AddEach(AddItem(st, its[k]), its, k + 1)

\* HGrid.prototype.addItems(items) through batchUpdate
AddItems(st, its) ==
  LET s1 == AddEach(BeginUpdate(st), its, 1)
  IN IF s1.err # "none" THEN s1 ELSE EndUpdate(s1)

\* HGrid.prototype.removeItem(id)
RemoveItem(st, id) == DeleteItem(st, id)

\* ------------------------------------------------------- drag and drop
\* dataView.getItemByIdx(idx), idx counted from 0; undefined has no id
Undefined == [id |-> NoVal, parentID |-> NoVal, node |-> 0, depth |-> NoVal,
              kind |-> FILE, collapsed |-> FALSE, hidden |-> FALSE]
GetItemByIdx(its, idx) == IF idx + 1 <= Len(its) THEN its[idx + 1] ELSE Undefined

\* onDragRows: the drop target becomes the parent item of the item at
\* insertBefore; addHighlight then throws when there is no such parent item
\* (the rendering of the highlight is not modelled)
OnDragRows(st, insertBefore) ==
  IF insertBefore = 0 THEN st
  ELSE IF insertBefore + 1 > Len(st.items) THEN Throw(st, "TypeError")
  ELSE LET pid == GetItemByIdx(st.items, insertBefore).parentID
       IN IF IdxById(st.items, pid) = 0
            THEN Throw([st EXCEPT !.folderTarget = NoVal], "TypeError")
            ELSE [st EXCEPT !.folderTarget = pid]

\* onBeforeMoveRows: FALSE when the handler returns false
\* (a mutant: the row just above insertBefore is not compared)
OnBeforeMoveRowsMutant(rws, insertBefore) ==
  ~\E i \in 1..Len(rws) : rws[i] = insertBefore
OnBeforeMoveRows(rws, insertBefore) ==
  ~\E i \in 1..Len(rws) : rws[i] = insertBefore \/ rws[i] = insertBefore - 1

\* the copy onMoveRows makes of a moved item: parentID replaced, depth and
\* _node deleted
NewItem(item, parentID) == [item EXCEPT !.parentID = parentID, !.node = 0, !.depth = NoVal]

RECURSIVE RemoveEach(_, _, _)
\* the loop of onMoveRows over grid.removeItem
RemoveEach(st, its, k) ==
  IF k > Len(its) \/ st.err # "none" THEN st
  ELSE RemoveEach(RemoveItem(st, its[k].id), its, k + 1)

\* onMoveRows
OnMoveRows(st, rws, insertBefore) ==
  IF st.folderTarget = NoVal THEN Throw(st, "TypeError")
  ELSE LET newItems == [i \in 1..Len(rws) |->
                          NewItem(GetItemByIdx(st.items, rws[i]), st.folderTarget)]
           s1 == RemoveEach(st, newItems, 1)
       IN IF s1.err # "none" THEN s1 ELSE AddItems(s1, newItems)

\* The row move manager's dispatch at the end of a drag: the last onDragRows
\* (an exception of that handler ends that handler only), then onMoveRows
\* unless onBeforeMoveRows returned false.
Drop(st, rws, insertBefore) ==
  LET s1 == [OnDragRows(st, insertBefore) EXCEPT !.err = "none"]
  IN IF ~OnBeforeMoveRows(rws, insertBefore) THEN Throw(s1, "rejected")
     ELSE OnMoveRows(s1, rws, insertBefore)

\* ------------------------------------------------------------ the machine
State == [nodes |-> nodes, items |-> items, rows |-> rows, suspend |-> suspend,
          idCounter |-> idCounter, folderTarget |-> folderTarget, err |-> "none",
          notes |-> 0]

Becomes(st) ==
  /\ nodes' = st.nodes
  /\ items' = st.items
  /\ rows' = st.rows
  /\ suspend' = st.suspend
  /\ idCounter' = st.idCounter
  /\ folderTarget' = st.folderTarget

Last(op, id, res) == [op |-> op, id |-> id, res |-> res]

\* an operation on the constructed grid
Ready == phase = "ready" /\ ops < MaxOps /\ ops' = ops + 1

Init ==
  /\ phase = "new"
  /\ input \in Hierarchies
  /\ nodes = <<>>
  /\ items = <<>>
  /\ rows = <<>>
  /\ suspend = FALSE
  /\ idCounter = 0
  /\ folderTarget = NoVal
  /\ last = Last("init", NoVal, "none")
  /\ ops = 0

\* new HGrid(selector, {data: input}): Tree.fromObject, then updateDataView
Build ==
  /\ phase = "new"
  /\ LET st == UpdateDataView(RootFromObject(State, input), 1)
     IN Becomes(st) /\ last' = Last("build", NoVal, st.err)
  /\ phase' = "ready"
  /\ UNCHANGED <<input, ops>>

\* the ids addItem may name as parent: none, the root, an item of the store
ParentIDs == {NoVal, ROOT_ID} \cup { items[i].id : i \in 1..Len(items) }

AddItemAct ==
  /\ Ready
  /\ \E kind \in {FILE, FOLDER}, pid \in ParentIDs :
       LET st == AddItem(State, [Undefined EXCEPT !.kind = kind, !.parentID = pid])
       IN Becomes(st) /\ last' = Last("addItem", pid, st.err)
  /\ UNCHANGED <<phase, input>>

RemoveItemAct ==
  /\ Ready
  /\ \E j \in 1..Len(items) :
       LET st == RemoveItem(State, items[j].id)
       IN Becomes(st) /\ last' = Last("removeItem", items[j].id, st.err)
  /\ UNCHANGED <<phase, input>>

CollapseItemAct ==
  /\ Ready
  /\ \E j \in 1..Len(items) :
       /\ items[j].kind = FOLDER
       /\ LET st == CollapseItem(State, j)
          IN Becomes(st) /\ last' = Last("collapseItem", items[j].id, st.err)
  /\ UNCHANGED <<phase, input>>

ExpandItemAct ==
  /\ Ready
  /\ \E j \in 1..Len(items) :
       /\ items[j].kind = FOLDER
       /\ LET st == ExpandItem(State, j)
          IN Becomes(st) /\ last' = Last("expandItem", items[j].id, st.err)
  /\ UNCHANGED <<phase, input>>

\* the row under the pointer during a drag: 0 .. number of rows
DragRowsAct ==
  /\ Ready
  /\ \E ib \in 0..Len(rows) :
       LET st == OnDragRows(State, ib)
       IN Becomes(st) /\ last' = Last("dragRows", NoVal, st.err)
  /\ UNCHANGED <<phase, input>>

\* the selections of a drag: up to MaxDragRows grid rows, in ascending order
RECURSIVE Ascending(_)
Ascending(S) ==
  IF S = {} THEN <<>>
  ELSE LET m == CHOOSE x \in S : \A y \in S : x <= y
       IN <<m>> \o Ascending(S \ {m})

Selections ==
  { Ascending(S) : S \in { T \in SUBSET (0..(Len(rows) - 1)) :
                             T # {} /\ Cardinality(T) <= MaxDragRows } }

DropAct ==
  /\ Ready
  /\ \E rws \in Selections, ib \in 0..Len(rows) :
       /\ LET st == Drop(State, rws, ib)
          IN Becomes(st) /\ last' = Last("drop", st.folderTarget, st.err)
  /\ UNCHANGED <<phase, input>>

Next ==
  \/ Build
  \/ AddItemAct
  \/ RemoveItemAct
  \/ CollapseItemAct
  \/ ExpandItemAct
  \/ DragRowsAct
  \/ DropAct

Spec == Init /\ [][Next]_vars

\* the construction alone, on larger hierarchies
InitBuild ==
  /\ phase = "new"
  /\ input \in UNION { Forests(n, {NoVal} \cup SuppliedIds) : n \in 0..MaxBuildNodes }
  /\ nodes = <<>>
  /\ items = <<>>
  /\ rows = <<>>
  /\ suspend = FALSE
  /\ idCounter \in {0, 1}   \* the counter is shared with the trees made before
  /\ folderTarget = NoVal
  /\ last = Last("init", NoVal, "none")
  /\ ops = 0

SpecBuild == InitBuild /\ [][Build]_vars

\* ------------------------------------------------ relations of the claims
\* the node handles reachable from node h through the children lists
RECURSIVE Reach(_, _)
Reach(ns, h) == {h} \cup UNION { Reach(ns, ns[h].children[k]) : k \in 1..Len(ns[h].children) }

\* following parentID from the id pid reaches the id target in at most fuel steps
RECURSIVE ChainReaches(_, _, _, _)
ChainReaches(its, pid, target, fuel) ==
  IF pid = target THEN TRUE
  ELSE IF fuel = 0 \/ IdxById(its, pid) = 0 THEN FALSE
  ELSE ChainReaches(its, its[IdxById(its, pid)].parentID, target, fuel - 1)

\* the item at place j is a descendant, in the store, of the item with id f
IsDescendant(its, j, f) == ChainReaches(its, its[j].parentID, f, Len(its))

\* the step taken is the handler result st
StepIs(st) ==
  /\ nodes' = st.nodes
  /\ items' = st.items
  /\ rows' = st.rows
  /\ suspend' = st.suspend
  /\ idCounter' = st.idCounter
  /\ folderTarget' = st.folderTarget
  /\ last'.res = st.err

\* ------------------------------------------------------------------ claims

\* C1: in every reachable state each non-root node reachable from the root
\* through the children lists has exactly one store item with the node's id,
\* parentID and depth, and the root has no item.
C1_TreeStoreLinked ==
  phase = "ready" =>
    /\ \A h \in Reach(nodes, 1) \ {1} :
         Cardinality({ j \in 1..Len(items) :
                         /\ items[j].id = nodes[h].id
                         /\ items[j].parentID = nodes[h].parentID
                         /\ items[j].depth = nodes[h].depth }) = 1
    /\ \A j \in 1..Len(items) : items[j].id # ROOT_ID

\* C2: in every reachable state an item whose parentID names another store
\* item has that item's depth + 1, and an item whose parentID is the root
\* sentinel has depth 1.
C2_DepthIsParentPlusOne ==
  \A j \in 1..Len(items) :
    /\ IdxById(items, items[j].parentID) # 0 =>
         items[j].depth = items[IdxById(items, items[j].parentID)].depth + 1
    /\ items[j].parentID = ROOT_ID => items[j].depth = 1

\* C10: after removeItem(id) no store item has a parentID chain leading to
\* the removed id (the descendants' items are removed with the folder's).
C10_RemoveTakesDescendants ==
  (last.op = "removeItem" /\ last.res = "none") =>
    /\ IdxById(items, last.id) = 0
    /\ \A j \in 1..Len(items) : ~IsDescendant(items, j, last.id)


\* the objects of a hierarchy in pre-order, each with its kind, the id it
\* carries, its nesting level and the place in this order of its enclosing
\* folder (0 for the top level); at is the place of the first object
RECURSIVE PreOrder(_, _, _, _)
PreOrder(f, depth, encl, at) ==
  IF f = <<>> THEN <<>>
  ELSE LET below == PreOrder(Head(f).children, depth + 1, at, at + 1)
       IN <<[kind |-> Head(f).kind, id |-> Head(f).id, depth |-> depth, encl |-> encl]>>
            \o below \o PreOrder(Tail(f), depth, encl, at + 1 + Len(below))

\* C3: Tree.fromObject(H).toData() lists the objects of H in pre-order, each
\* with its nesting level as depth (top level 1) and the id of the item of
\* its enclosing folder, or the root sentinel, as parentID.
C3_FlattenIsPreOrder ==
  phase = "ready" =>
    LET out == ToData(nodes, 1)
        objs == PreOrder(input, 1, 0, 1)
    IN /\ Len(out) = Len(objs)
       /\ \A k \in 1..Len(objs) :
            /\ out[k].kind = objs[k].kind
            /\ objs[k].id # NoVal => out[k].id = objs[k].id
            /\ out[k].depth = objs[k].depth
            /\ out[k].parentID = IF objs[k].encl = 0 THEN ROOT_ID
                                  ELSE out[objs[k].encl].id

\* C4: after collapseItem(F) every descendant of F is hidden, F is collapsed
\* and not hidden, and every descendant folder keeps its _collapsed flag.
C4_CollapseHidesDescendants ==
  [][(last'.op = "collapseItem" /\ last'.res = "none") =>
       LET i == IdxById(items', last'.id)
       IN /\ i # 0
          /\ items'[i].collapsed
          /\ ~items'[i].hidden
          /\ \A j \in 1..Len(items') :
               IsDescendant(items', j, last'.id) =>
                 /\ items'[j].hidden
                 /\ items'[j].kind = FOLDER => items'[j].collapsed = items[j].collapsed]_vars

\* a folder strictly between the item with id f and the item whose parent is
\* pid is marked collapsed
RECURSIVE CollapsedBetween(_, _, _, _)
CollapsedBetween(its, pid, f, fuel) ==
  IF pid = f \/ fuel = 0 \/ IdxById(its, pid) = 0 THEN FALSE
  ELSE \/ its[IdxById(its, pid)].collapsed
       \/ CollapsedBetween(its, its[IdxById(its, pid)].parentID, f, fuel - 1)

\* C5: after expandItem(F), F is neither collapsed nor hidden, a descendant of
\* F is visible exactly when no folder strictly between F and it is
\* collapsed, and every descendant folder keeps its _collapsed flag.
C5_ExpandRespectsCollapsed ==
  [][(last'.op = "expandItem" /\ last'.res = "none") =>
       LET i == IdxById(items', last'.id)
       IN /\ i # 0
          /\ ~items'[i].collapsed
          /\ ~items'[i].hidden
          /\ \A j \in 1..Len(items') :
               IsDescendant(items', j, last'.id) =>
                 /\ ~items'[j].hidden <=>
                      ~CollapsedBetween(items', items'[j].parentID, last'.id, Len(items'))
                 /\ items'[j].kind = FOLDER => items'[j].collapsed = items[j].collapsed]_vars

\* C6: expandItem(F) twice gives the flags and the rows expandItem(F) once
\* gives, for every folder F of every reachable store.
C6_ExpandIdempotent ==
  phase = "ready" =>
    \A j \in 1..Len(items) :
      items[j].kind = FOLDER =>
        LET s1 == ExpandItem(State, j)
            s2 == ExpandItem([s1 EXCEPT !.err = "none"], j)
        IN s2 = s1

C6_Witness ==
  /\ last.op = "expandItem"
  /\ last.res = "none"
  /\ \E j, k \in 1..Len(items) :
       /\ items[j].parentID = last.id
       /\ items[j].collapsed
       /\ ~items[j].hidden
       /\ items[k].parentID = items[j].id
       /\ items[k].hidden

\* the drop target onMoveRows uses for a drop at insertBefore
TargetOf(st, ib) == OnDragRows(st, ib).folderTarget

\* C7: a drag-move of X onto a folder G of the store ends with exactly one
\* store item with X's id, whose parentID is G's id and whose depth is G's
\* depth + 1.
C7_MoveReparents ==
  [][\A rws \in Selections, ib \in 0..Len(rows) :
       LET g == TargetOf(State, ib)
       IN ( /\ last'.op = "drop"
            /\ OnBeforeMoveRows(rws, ib)
            /\ IdxById(items, g) # 0
            /\ StepIs(Drop(State, rws, ib)) ) =>
          \A i \in 1..Len(rws) :
            LET x == GetItemByIdx(items, rws[i]).id
                at == { j \in 1..Len(items') : items'[j].id = x }
            IN /\ Cardinality(at) = 1
               /\ IdxById(items', g) # 0
               /\ \A j \in at : /\ items'[j].parentID = g
                                /\ items'[j].depth = items'[IdxById(items', g)].depth + 1]_vars

\* C8: when a folder X is drag-moved, every store descendant of X has, after
\* the move, the depth of its parent item + 1.
C8_MoveRecomputesDepths ==
  [][\A rws \in Selections, ib \in 0..Len(rows) :
       ( /\ last'.op = "drop"
         /\ last'.res = "none"
         /\ OnBeforeMoveRows(rws, ib)
         /\ StepIs(Drop(State, rws, ib)) ) =>
       \A i \in 1..Len(rws), j \in 1..Len(items') :
         IsDescendant(items', j, GetItemByIdx(items, rws[i]).id) =>
           /\ IdxById(items', items'[j].parentID) # 0
           /\ items'[j].depth = items'[IdxById(items', items'[j].parentID)].depth + 1]_vars

\* C9: a drop one of whose rows is insertBefore or insertBefore - 1 is
\* rejected: onBeforeMoveRows returns false, onMoveRows does not run, and the
\* store and the tree are as before.
C9_RejectedMoveChangesNothing ==
  phase = "ready" =>
    \A rws \in Selections, ib \in 0..Len(rows) :
      (\E i \in 1..Len(rws) : rws[i] = ib \/ rws[i] = ib - 1) =>
        LET st == Drop(State, rws, ib)
        IN /\ ~OnBeforeMoveRows(rws, ib)
           /\ st.err = "rejected"
           /\ st.items = items
           /\ st.rows = rows
           /\ st.nodes = nodes
           /\ st.suspend = suspend
           /\ st.idCounter = idCounter

C9_Witness ==
  /\ last.op = "drop"
  /\ last.res = "rejected"
  /\ Len(items) >= 3
  /\ \E j \in 1..Len(items) : items[j].depth = 2

\* the items addItems may be given: up to MaxBatch files and folders, each
\* naming as parent nothing, the root or a folder of the store
ValidParents ==
  {NoVal, ROOT_ID} \cup { items[i].id : i \in { k \in 1..Len(items) : items[k].kind = FOLDER } }

ValidItems ==
  { [Undefined EXCEPT !.kind = kind, !.parentID = pid] :
      kind \in {FILE, FOLDER}, pid \in ValidParents }

Batches == UNION { [1..n -> ValidItems] : n \in 1..MaxBatch }

\* C11: addItems of n >= 1 valid items notifies a change of the row count
\* exactly once, at endUpdate, and not while the items are inserted.
C11_OneNotificationPerBatch ==
  phase = "ready" =>
    \A its \in Batches :
      LET mid == AddEach(BeginUpdate(State), its, 1)
          st == AddItems(State, its)
      IN st.err = "none" => (mid.notes = 0 /\ st.notes = 1 /\ ~st.suspend)

\* seq without its k-th element
Without(seq, k) == SubSeq(seq, 1, k - 1) \o SubSeq(seq, k + 1, Len(seq))

\* C12: right after addItem(item) the new item is in the store right after
\* its parent's item, or first when the parent is the root or not given, and
\* the items stored before are all there, in the order they had.
C12_AddItemIndex ==
  phase = "ready" =>
    \A kind \in {FILE, FOLDER}, pid \in ParentIDs :
      LET st == AddItem(State, [Undefined EXCEPT !.kind = kind, !.parentID = pid])
          h == Len(nodes) + 1
      IN st.err = "none" =>
           \E k \in 1..Len(st.items) :
             /\ st.items[k].node = h
             /\ Without(st.items, k) = items
             /\ IF pid \in {NoVal, ROOT_ID} THEN k = 1
                ELSE k > 1 /\ st.items[k - 1].id = pid

C12_Witness ==
  /\ last.op = "addItem"
  /\ last.res = "none"
  /\ \E k \in 2..(Len(items) - 1) :
       /\ items[k].node = Len(nodes)
       /\ items[k - 1].id = last.id
       /\ items[k + 1].parentID = last.id

\* the nodes a caller makes to attach: a file, an empty folder, a folder
\* that has a file
Attachables ==
  {FileObj(NoVal), FolderObj(NoVal, <<>>), FolderObj(NoVal, <<FileObj(NoVal)>>)}

\* Leaf.fromObject(obj) or Tree.fromObject(obj, p): a subtree not attached yet,
\* its top being node Len(st.nodes) + 1
NewSubtree(st, obj, p) ==
  IF obj.kind = FILE THEN NewNode(st, FILE, DataOf(obj)) ELSE TreeFromObject(st, obj, p)

\* the folders of the tree of the grid, the root among them
TreeFolders == { h \in Reach(nodes, 1) : nodes[h].kind = FOLDER }

\* C13 as claimed: after P.add(N), P.toData() has N's projection right after
\* P's own projection (first when P is the root), whatever children P had.
C13_AttachedRightAfterParent ==
  phase = "ready" =>
    \A p \in TreeFolders, obj \in Attachables :
      LET h == Len(nodes) + 1
          s2 == TreeAdd(NewSubtree(State, obj, p), p, h, FALSE)
          out == ToData(s2.nodes, p)
          at == IF p = 1 THEN 1 ELSE 2
      IN Len(out) >= at /\ out[at] = ItemOf(s2.nodes, h)

\* C13 as amended: after P.add(N), P.toData() is what it was before the
\* attachment followed by N's own flattening, so N's projection comes after
\* the projections of P, of the children P already had and of their
\* descendants (right after P's projection only when P had no children).
C13_AttachedLast ==
  phase = "ready" =>
    \A p \in TreeFolders, obj \in Attachables :
      LET h == Len(nodes) + 1
          s2 == TreeAdd(NewSubtree(State, obj, p), p, h, FALSE)
          out == ToData(s2.nodes, p)
          flat == ToData(s2.nodes, h)
      IN /\ out = ToData(nodes, p) \o flat
         /\ flat[1] = ItemOf(s2.nodes, h)
         /\ flat[1].parentID = nodes[p].id

C13_Witness ==
  /\ last.op = "add"
  /\ last.res = "none"
  /\ \E p \in TreeFolders \ {1} :
       /\ Len(nodes[p].children) >= 2
       /\ nodes[p].children[Len(nodes[p].children)] = last.id

\* C14: in every reachable state every visible item whose parentID is not the
\* root sentinel has its parent's item in the store, at a smaller index.
C14_ParentBeforeChild ==
  phase = "ready" =>
    \A j \in 1..Len(items) :
      (~items[j].hidden /\ items[j].parentID # ROOT_ID) =>
        \E i \in 1..(j - 1) : items[i].id = items[j].parentID

\* ------------------------------------- the tree handled through Tree and Leaf
\* The grid exposes its tree (grid.tree, HGrid.Tree, HGrid.Leaf): a caller
\* makes subtrees, attaches them with add and calls updateDataView.

\* an operation on the tree of the constructed grid
ReadyTree == phase = "ready" /\ ops < MaxTreeOps /\ ops' = ops + 1

\* Leaf.fromObject(obj) / Tree.fromObject(obj, grid.tree): a subtree that no
\* node holds yet
NewSubtreeAct ==
  /\ ReadyTree
  /\ \E obj \in Attachables :
       LET st == NewSubtree(State, obj, 1)
       IN Becomes(st) /\ last' = Last("fromObject", Len(nodes) + 1, st.err)
  /\ UNCHANGED <<phase, input>>

\* the tops of the subtrees that no node holds
Detached ==
  { h \in 2..Len(nodes) : \A q \in 1..Len(nodes) :
                            \A k \in 1..Len(nodes[q].children) : nodes[q].children[k] # h }

\* p.add(c, updateDataView) for a folder p and a subtree c no node holds
AttachAct ==
  /\ ReadyTree
  /\ \E c \in Detached, updateDataView \in BOOLEAN :
       \E p \in { q \in 1..Len(nodes) : nodes[q].kind = FOLDER /\ q \notin Reach(nodes, c) } :
         LET st == TreeAdd(State, p, c, updateDataView)
         IN Becomes(st) /\ last' = Last("add", c, st.err)
  /\ UNCHANGED <<phase, input>>

\* node.updateDataView() on a Tree, attached or not
ResyncAct ==
  /\ ReadyTree
  /\ \E h \in { q \in 1..Len(nodes) : nodes[q].kind = FOLDER } :
       LET st == UpdateDataView(State, h)
       IN Becomes(st) /\ last' = Last("updateDataView", h, st.err)
  /\ UNCHANGED <<phase, input>>

NextTree ==
  \/ Build
  \/ NewSubtreeAct
  \/ AttachAct
  \/ ResyncAct

SpecTree == Init /\ [][NextTree]_vars

\* C15: updateDataView on a Tree that holds no store throws HGridError and
\* leaves every node and the store as they were (no store reference is
\* propagated, no item set).
C15_DetachedResyncThrows ==
  \A h \in 1..Len(nodes) :
    (nodes[h].kind = FOLDER /\ ~nodes[h].dv) =>
      LET st == UpdateDataView(State, h)
      IN /\ st.err = "HGridError"
         /\ st.nodes = nodes
         /\ st.items = items
         /\ st.rows = rows
         /\ st.suspend = suspend
         /\ st.notes = 0

C15_Witness ==
  /\ last.op = "updateDataView"
  /\ last.res = "HGridError"
  /\ Len(nodes[last.id].children) > 0
  /\ Len(items) > 0

\* C16: a Leaf or non-root Tree made from data that carries an id has that id,
\* as has its item projection, and the counter stays; made from data without
\* an id it has the counter's value and the counter grows by 1.
C16_IdAssignment ==
  \A kind \in {FILE, FOLDER}, id \in {NoVal} \cup SuppliedIds :
    LET h == Len(nodes) + 1
        st == NewNode(State, kind, [NoData EXCEPT !.id = id])
    IN IF id # NoVal
         THEN /\ st.nodes[h].id = id
              /\ ItemOf(st.nodes, h).id = id
              /\ st.idCounter = idCounter
         ELSE /\ st.nodes[h].id = idCounter
              /\ ItemOf(st.nodes, h).id = idCounter
              /\ st.idCounter = idCounter + 1

\* the ids the objects of a hierarchy carry, in pre-order
SuppliedOf(f) ==
  LET objs == PreOrder(f, 1, 0, 1)
  IN [k \in { j \in 1..Len(objs) : objs[j].id # NoVal } |-> objs[k].id]

Injective(fn) == \A a, b \in DOMAIN fn : a # b => fn[a] # fn[b]

\* C17: when the caller's ids differ from one another, no two nodes of the
\* built tree and no two items of the store share an id.
C17_IdsUnique ==
  (phase = "ready" /\ Injective(SuppliedOf(input))) =>
    /\ Injective([h \in Reach(nodes, 1) |-> nodes[h].id])
    /\ Injective([j \in 1..Len(items) |-> items[j].id])

\* the node whose children list holds h (0 when none does)
HolderOf(ns, h) ==
  IF \E q \in 1..Len(ns) : \E k \in 1..Len(ns[q].children) : ns[q].children[k] = h
    THEN CHOOSE q \in 1..Len(ns) : \E k \in 1..Len(ns[q].children) : ns[q].children[k] = h
    ELSE 0

\* C18: after parent.add(child) on a parent that holds the root's store,
\* child and all its descendants hold it; so every node reachable from the
\* root holds the root's store.
C18_StoreShared ==
  phase = "ready" =>
    /\ (last.op = "add" /\ HolderOf(nodes, last.id) # 0 /\ nodes[HolderOf(nodes, last.id)].dv) =>
         \A h \in Reach(nodes, last.id) : nodes[h].dv
    /\ \A h \in Reach(nodes, 1) : nodes[h].dv

\* C19: updateDataView on the root leaves the store holding root.toData(),
\* out of batch mode; on a Tree below the root that holds the store it
\* propagates the store reference and leaves the items and rows as they were.
C19_ResyncReplacesOnRootOnly ==
  phase = "ready" =>
    \A h \in TreeFolders :
      nodes[h].dv =>
        LET st == UpdateDataView(State, h)
        IN /\ st.err = "none"
           /\ \A q \in Reach(st.nodes, h) : st.nodes[q].dv
           /\ IF h = 1 THEN st.items = ToData(st.nodes, 1) /\ ~st.suspend
              ELSE st.items = items /\ st.rows = rows

\* ------------------------------ the grid folded and unfolded by its user
\* toggleCollapse on the folders the grid displays: collapseItem on a
\* visible folder, expandItem on a visible folder
CollapseVisibleAct ==
  /\ Ready
  /\ \E j \in 1..Len(items) :
       /\ items[j].kind = FOLDER
       /\ ~items[j].hidden
       /\ LET st == CollapseItem(State, j)
          IN Becomes(st) /\ last' = Last("collapseItem", items[j].id, st.err)
  /\ UNCHANGED <<phase, input>>

ExpandVisibleAct ==
  /\ Ready
  /\ \E j \in 1..Len(items) :
       /\ items[j].kind = FOLDER
       /\ ~items[j].hidden
       /\ LET st == ExpandItem(State, j)
          IN Becomes(st) /\ last' = Last("expandItem", items[j].id, st.err)
  /\ UNCHANGED <<phase, input>>

NextFold ==
  \/ Build
  \/ CollapseVisibleAct
  \/ ExpandVisibleAct

SpecFold == Init /\ [][NextFold]_vars

\* C20: on a grid changed only by collapseItem and expandItem of visible
\* folders, collapseItem(F) then expandItem(F) on a visible expanded folder F
\* gives every item the _hidden flag, and every folder the _collapsed flag,
\* it had before.
C20_CollapseExpandRoundTrip ==
  phase = "ready" =>
    \A j \in 1..Len(items) :
      (items[j].kind = FOLDER /\ ~items[j].hidden /\ ~items[j].collapsed) =>
        LET s1 == CollapseItem(State, j)
            s2 == ExpandItem(s1, j)
        IN /\ s1.err = "none"
           /\ s2.err = "none"
           /\ Len(s2.items) = Len(items)
           /\ \A k \in 1..Len(items) :
                /\ s2.items[k].hidden = items[k].hidden
                /\ items[k].kind = FOLDER => s2.items[k].collapsed = items[k].collapsed
           /\ s2.rows = rows

C20_Witness ==
  /\ last.op = "expandItem"
  /\ last.res = "none"
  /\ ops = MaxOps
  /\ \E i, j, k \in 1..Len(items) :
       /\ items[i].id = last.id
       /\ ~items[i].collapsed
       /\ items[j].parentID = items[i].id
       /\ items[j].kind = FOLDER
       /\ items[j].collapsed
       /\ ~items[j].hidden
       /\ items[k].parentID = items[j].id
       /\ items[k].hidden

\* ------------------------------- the grid changed by adding and folding only
NextVis ==
  \/ Build
  \/ AddItemAct
  \/ CollapseItemAct
  \/ ExpandItemAct

SpecVis == Init /\ [][NextVis]_vars

\* C21: in every state reached by addItem, collapseItem and expandItem an
\* item is hidden exactly when one of its ancestor folders is marked
\* collapsed.
C21_HiddenIffAncestorCollapsed ==
  phase = "ready" =>
    \A j \in 1..Len(items) :
      items[j].hidden <=> CollapsedBetween(items, items[j].parentID, ROOT_ID, Len(items))

\* the handler state of the state a step leads to
StateAfter == [nodes |-> nodes', items |-> items', rows |-> rows', suspend |-> suspend',
               idCounter |-> idCounter', folderTarget |-> folderTarget', err |-> "none",
               notes |-> 0]

\* C22: after removeItem(c) the node of c is in no children list of the
\* tree, and collapseItem and expandItem of every folder still in the store
\* complete without error.
C22_RemoveDetachesNode ==
  [][(last'.op = "removeItem" /\ last'.res = "none") =>
       LET c == items[IdxById(items, last'.id)].node
       IN /\ \A h \in 1..Len(nodes') :
               \A k \in 1..Len(nodes'[h].children) : nodes'[h].children[k] # c
          /\ \A j \in 1..Len(items') :
               items'[j].kind = FOLDER =>
                 /\ CollapseItem(StateAfter, j).err = "none"
                 /\ ExpandItem(StateAfter, j).err = "none"]_vars

\* the store item displayed at grid row r, counted from 0
Displayed(r) == items[IdxById(items, rows[r + 1])]

\* C23: in a drop that moves, the items onMoveRows moves are the items
\* displayed at the dragged grid rows, and its drop target is the parent of
\* the item displayed at the insertion row, when that row is not the first
\* and that parent is an item of the store.
C23_DropUsesDisplayedRows ==
  [][\A rws \in Selections, ib \in 1..(Len(rows) - 1) :
       ( /\ last'.op = "drop"
         /\ last'.res = "none"
         /\ OnBeforeMoveRows(rws, ib)
         /\ IdxById(items, Displayed(ib).parentID) # 0
         /\ StepIs(Drop(State, rws, ib)) ) =>
       /\ \A i \in 1..Len(rws) : GetItemByIdx(items, rws[i]) = Displayed(rws[i])
       /\ TargetOf(State, ib) = Displayed(ib).parentID]_vars

\* following parentID from every item of its reaches the root sentinel
AllReachRoot(its) ==
  \A j \in 1..Len(its) : ChainReaches(its, its[j].parentID, ROOT_ID, Len(its))

\* C24: a drag-move keeps the parentID relation acyclic: when every item's
\* parentID chain reached the root before the move, it does after it.
C24_MoveKeepsAcyclic ==
  [][(last'.op = "drop" /\ last'.res = "none" /\ AllReachRoot(items)) =>
       AllReachRoot(items')]_vars

\* an id no item of the store has, also after a batch has been added
AbsentID == idCounter + MaxBatch

\* the items addItems may be given when the parent need not be a folder of
\* the store
AnyItems ==
  { [Undefined EXCEPT !.kind = kind, !.parentID = pid] :
      kind \in {FILE, FOLDER}, pid \in ParentIDs \cup {AbsentID} }

AnyBatches == UNION { [1..n -> AnyItems] : n \in 1..MaxBatch }

\* C25: whenever addItems returns or raises, on a store that was not in
\* batch mode, the store is not in batch mode afterwards.
C25_BatchAlwaysEnded ==
  (phase = "ready" /\ ~suspend) =>
    \A its \in AnyBatches : ~AddItems(State, its).suspend

\* the items of its that are the item with id x or its store descendants
Subtree(its, x) ==
  { j \in 1..Len(its) : its[j].id = x \/ IsDescendant(its, j, x) }

\* C26: after a completed drag-move of a folder X with store children from
\* folder P into another folder G that leaves every parentID chain reaching
\* the root, collapseItem(X) hides every store descendant of X,
\* collapseItem(G) hides X and its descendants, and collapseItem(P), for P
\* not an ancestor of G, changes no flag of X or of its descendants.
C26_CollapseFollowsMove ==
  [][\A rws \in Selections, ib \in 0..Len(rows) :
       ( /\ last'.op = "drop"
         /\ last'.res = "none"
         /\ OnBeforeMoveRows(rws, ib)
         /\ StepIs(Drop(State, rws, ib))
         /\ AllReachRoot(items') ) =>
       \A i \in 1..Len(rws) :
         LET x == GetItemByIdx(items, rws[i])
             g == folderTarget'
             p == x.parentID
             after == StateAfter
             ix == IdxById(items', x.id)
             ig == IdxById(items', g)
             ip == IdxById(items', p)
         IN (x.kind = FOLDER /\ (Subtree(items', x.id) \ {ix}) # {} /\ ix # 0 /\ p # g) =>
              /\ \A j \in Subtree(items', x.id) \ {ix} :
                   CollapseItem(after, ix).items[j].hidden
              /\ ig # 0 =>
                   \A j \in Subtree(items', x.id) : CollapseItem(after, ig).items[j].hidden
              /\ (ip # 0 /\ ~IsDescendant(items', ig, p)) =>
                   \A j \in Subtree(items', x.id) :
                     CollapseItem(after, ip).items[j] = items'[j]]_vars

====
